---- MODULE Spec2Model ----
(***************************************************************************)
(* Model of scripts/extraction/shard_events.py: the re-sharding            *)
(* orchestrator.  Several orchestrator instances (processes running main)  *)
(* share the raw input directory (read only) and the output tree.  The     *)
(* wrapper MEDS_polars_functions.mapper.wrap is imported by the script;    *)
(* it is modelled from its documented contract.                            *)
(***************************************************************************)
EXTENDS Integers, Sequences, FiniteSets, TLC

\* ------------------------------------------------------------------ bounds

\* Largest row count of a raw input file.
MaxRows == 2
\* Largest configured row_chunksize.
MaxChunk == 2
\* Largest row count and row_chunksize of a run of one instance alone.
SoloMaxRows == 3
SoloMaxChunk == 2
\* Largest row count and chunk size of the chunk computation taken alone.
ChunkMaxRows == 12
ChunkMaxSize == 5
\* Largest number of raw files in the directory of a pipeline run.
MaxFiles == 2
\* Largest number of Table Reader / Table Writer failures injected.
MaxFailures == 1

\* The orchestrator instances (independent processes running main).
Instances == {"w1", "w2"}

\* ------------------------------------------------------------ file names

\* A raw file: its parent directory relative to raw_cohort_dir and the
\* dot-separated components of its name ("d.csv.gz" is <<"d","csv","gz">>).
MkFile(parent, name) == [parent |-> parent, name |-> name]

\* Files a pipeline run may find in raw_cohort_dir.
PipelineFiles ==
    { MkFile("", <<"d", "parquet">>),
      MkFile("", <<"d", "csv">>),
      MkFile("", <<"e", "csv">>),
      MkFile("", <<"e", "csv", "gz">>) }

\* Files the discovery-only specification draws from: format variants,
\* dotted stems, a sub-directory and a file of an unknown format.
DiscoveryFiles ==
    { MkFile("", <<"d", "parquet">>),
      MkFile("", <<"d", "csv">>),
      MkFile("", <<"d", "csv", "gz">>),
      MkFile("", <<"d", "v1", "parquet">>),
      MkFile("", <<"d", "v2", "parquet">>),
      MkFile("sub", <<"d", "csv">>),
      MkFile("", <<"notes", "txt">>) }

\* The formats of the discovery loop, most preferred first.
Formats == << <<"parquet">>, <<"csv">>, <<"csv", "gz">> >>

\* The last n elements of s.
LastN(s, n) == SubSeq(s, Len(s) - n + 1, Len(s))

\* raw_cohort_dir.glob(f"**/*.{fmt}"): the name ends with ".<fmt>".
GlobMatches(f, fmt) ==
    /\ Len(f.name) > Len(fmt)
    /\ LastN(f.name, Len(fmt)) = fmt

\* pathlib's Path.suffix: the part of the name after its last dot.
PathSuffix(f) == IF Len(f.name) > 1 THEN <<f.name[Len(f.name)]>> ELSE <<>>

\* name.split(".")[0] under the relative parent.
get_shard_prefix(f) == [parent |-> f.parent, file_name |-> f.name[1]]

\* The reader scan_with_row_idx selects, or "ValueError".
ReaderOf(f) ==
    CASE PathSuffix(f) = <<"csv", "gz">> -> "read_csv_gzip"
      [] PathSuffix(f) = <<"csv">>       -> "scan_csv"
      [] PathSuffix(f) = <<"parquet">>   -> "scan_parquet"
      [] OTHER                           -> "ValueError"

\* ------------------------------------------------------------- sequences

Range(s) == { s[k] : k \in DOMAIN s }

\* All orderings of the finite set S.
Orderings(S) ==
    { s \in [1..Cardinality(S) -> S] : \A a, b \in DOMAIN s : s[a] = s[b] => a = b }

\* random.shuffle: every permutation of the list is a possible result.
ShuffleResults(s) ==
    { t \in [1..Len(s) -> Range(s)] :
        \A x \in Range(s) :
            Cardinality({ k \in DOMAIN t : t[k] = x })
              = Cardinality({ k \in DOMAIN s : s[k] = x }) }

Min(a, b) == IF a <= b THEN a ELSE b

\* --------------------------------------------------------------- discovery

\* The loop body of discovery for one globbed file: skip it with a warning
\* when its shard prefix was seen, accept it otherwise.
DiscoverFile(st, f) ==
    IF get_shard_prefix(f) \in st.seen_files
    THEN [st EXCEPT !.warnings = Append(@, f)]
    ELSE [st EXCEPT !.input_files_to_subshard = Append(@, f),
                    !.seen_files = @ \cup {get_shard_prefix(f)}]

RECURSIVE DiscoverList(_, _)
\* The inner loop of discovery over the files of one format, in glob order.
DiscoverList(st, files) ==
    IF files = <<>> THEN st
    ELSE DiscoverList(DiscoverFile(st, Head(files)), Tail(files))

\* The state of discovery before its loops.
DiscoverStart == [seen_files |-> {}, input_files_to_subshard |-> <<>>, warnings |-> <<>>]

\* The files glob returns for format number k.
FilesInFmt(raw, k) == { f \in raw : GlobMatches(f, Formats[k]) }

\* Every outcome of the discovery loops over the directory raw: glob returns
\* the files of a format in an order the file system chooses.
DiscoveryResults(raw) ==
    { DiscoverList(DiscoverList(DiscoverList(DiscoverStart, g1), g2), g3) :
        g1 \in Orderings(FilesInFmt(raw, 1)),
        g2 \in Orderings(FilesInFmt(raw, 2)),
        g3 \in Orderings(FilesInFmt(raw, 3)) }

\* ------------------------------------------------------------------ chunks

RECURSIVE PyRange(_, _, _)
\* list(range(start, stop, step)) for step > 0.
PyRange(start, stop, step) ==
    IF start >= stop THEN <<>>
    ELSE <<start>> \o PyRange(start + step, stop, step)

\* row_shards before the shuffle.
RowShards(rowCount, chunkSize) == PyRange(0, rowCount, chunkSize)

\* A chunk end that is not clamped to the row count.
ChunkEndUnclamped(st, rowCount, chunkSize) == st + chunkSize

\* end = min(st + row_chunksize, row_count)
ChunkEnd(st, rowCount, chunkSize) == Min(st + chunkSize, rowCount)

\* out_fp = MEDS_cohort_dir / "sub_sharded" / prefix / "[st-end).parquet"
OutFp(f, st, end) == [dir |-> get_shard_prefix(f), name |-> <<st, end>>]

\* ------------------------------------------------------------------- state

VARIABLES
    rawFiles,       \* the files under raw_cohort_dir
    nrows,          \* the row count of each raw file
    row_chunksize,  \* cfg.row_chunksize
    do_overwrite,   \* cfg.do_overwrite
    initOut,        \* the output tree before any instance started
    out,            \* the output tree: path -> content of the file there
    dirs,           \* the output directories created
    locks,          \* the output paths the wrapper holds locked
    writes,         \* path -> number of read-transform-writes committed to it
    failures,       \* Table Reader / Table Writer failures so far
    pc,             \* where each instance is
    input_files,    \* the files of input_files_to_subshard of each instance
    warnings,       \* the files each instance logged a skip warning for
    todo,           \* the files the outer loop has still to visit
    cur_file,       \* input_file of the outer loop
    row_count,      \* row_count of the current file
    row_shards,     \* the chunk starts the inner loop has still to visit
    cur,            \* the work item handed to the wrapper
    tmp,            \* the wrapper's temporary file of each instance
    executed,       \* work item -> times each instance handed it to the wrapper
    computeCount,   \* read-transform-writes each instance committed
    runStart,       \* what each instance found when it started
    chunk_R,        \* chunk computation alone: the row count
    chunk_C,        \* chunk computation alone: the chunk size
    chunk_starts,   \* chunk computation alone: the starts still to visit
    chunk_list,     \* chunk computation alone: the chunks derived so far
    chunk_pc        \* chunk computation alone: the position

vars == << rawFiles, nrows, row_chunksize, do_overwrite, initOut, out, dirs, locks,
           writes, failures, pc, input_files, warnings, todo, cur_file, row_count,
           row_shards, cur, tmp, executed, computeCount, runStart,
           chunk_R, chunk_C, chunk_starts, chunk_list, chunk_pc >>

configVars == << rawFiles, nrows, row_chunksize, do_overwrite, initOut >>
chunkVars == << chunk_R, chunk_C, chunk_starts, chunk_list, chunk_pc >>

NoFile == MkFile("", <<>>)
NoItem == [file |-> NoFile, st |-> 0, end |-> 0]
NoTmp == [written |-> FALSE, rows |-> <<>>]

\* ------------------------------------------------------------------ tables

\* The rows of a raw file: row k (counted from 1) of file f.
RawRows(f) == [k \in 1..nrows[f] |-> [src |-> f, row |-> k]]

\* reader(fp, row_index_name=ROW_IDX_NAME): the rows with their 0-based index.
scan_with_row_idx(f) == [k \in 1..nrows[f] |-> [row_idx |-> k - 1, data |-> RawRows(f)[k]]]

\* An interval test closed on both sides.
InChunkClosedBoth(idx, start, end) == start <= idx /\ idx <= end

\* is_between(start, end, closed="left")
InChunk(idx, start, end) == start <= idx /\ idx < end

\* df.filter(...).drop(ROW_IDX_NAME)
filter_to_row_chunk(df, start, end) ==
    LET kept == SelectSeq(df, LAMBDA r : InChunk(r.row_idx, start, end))
    IN  [k \in DOMAIN kept |-> kept[k].data]

\* The content of a stale output file.
Stale == << [src |-> NoFile, row |-> 0] >>

\* The output trees a run may find: nothing, or one stale file where the
\* first chunk of shard d goes when the file has a full first chunk.
InitialTrees(chunkSize) ==
    { <<>>, (OutFp(MkFile("", <<"d", "parquet">>), 0, chunkSize) :> Stale) }

\* A main that always asks the wrapper to overwrite.
OverwriteArgAlways == TRUE

\* What main passes to the wrapper as do_overwrite.
OverwriteArg == do_overwrite

\* ------------------------------------------------------------------- init

InitInstances ==
    /\ pc = [i \in Instances |-> "start"]
    /\ input_files = [i \in Instances |-> {}]
    /\ warnings = [i \in Instances |-> <<>>]
    /\ todo = [i \in Instances |-> <<>>]
    /\ cur_file = [i \in Instances |-> NoFile]
    /\ row_count = [i \in Instances |-> 0]
    /\ row_shards = [i \in Instances |-> <<>>]
    /\ cur = [i \in Instances |-> NoItem]
    /\ tmp = [i \in Instances |-> NoTmp]
    /\ executed = [i \in Instances |-> <<>>]
    /\ computeCount = [i \in Instances |-> 0]
    /\ runStart = [i \in Instances |-> [started |-> FALSE, after |-> FALSE, out |-> <<>>]]

InitChunkIdle ==
    /\ chunk_R = 0
    /\ chunk_C = 1
    /\ chunk_starts = <<>>
    /\ chunk_list = <<>>
    /\ chunk_pc = "idle"

\* The pipeline before any instance started, over a directory of at most
\* MaxFiles files of at most maxRows rows each.
InitPipeline(maxRows, maxChunk) ==
    /\ rawFiles \in { S \in SUBSET PipelineFiles : Cardinality(S) <= MaxFiles }
    /\ nrows \in [rawFiles -> 0..maxRows]
    /\ row_chunksize \in 1..maxChunk
    /\ do_overwrite \in BOOLEAN
    /\ initOut \in InitialTrees(row_chunksize)
    /\ out = initOut
    /\ dirs = {}
    /\ locks = {}
    /\ writes = <<>>
    /\ failures = 0
    /\ InitInstances
    /\ InitChunkIdle

Init == InitPipeline(MaxRows, MaxChunk)

InitSolo == InitPipeline(SoloMaxRows, SoloMaxChunk)

\* Only the discovery runs, over any directory of the discovery files.
InitDiscovery ==
    /\ rawFiles \in SUBSET DiscoveryFiles
    /\ nrows = [f \in rawFiles |-> 0]
    /\ row_chunksize = 1
    /\ do_overwrite = FALSE
    /\ initOut = <<>>
    /\ out = initOut
    /\ dirs = {}
    /\ locks = {}
    /\ writes = <<>>
    /\ failures = 0
    /\ InitInstances
    /\ InitChunkIdle

\* Only the chunk computation runs, for any row count and chunk size.
InitChunks ==
    /\ rawFiles = {}
    /\ nrows = <<>>
    /\ row_chunksize = 1
    /\ do_overwrite = FALSE
    /\ initOut = <<>>
    /\ out = initOut
    /\ dirs = {}
    /\ locks = {}
    /\ writes = <<>>
    /\ failures = 0
    /\ InitInstances
    /\ chunk_R \in 0..ChunkMaxRows
    /\ chunk_C \in 1..ChunkMaxSize
    /\ chunk_starts = <<>>
    /\ chunk_list = <<>>
    /\ chunk_pc = "start"

\* --------------------------------------------------- main: the orchestrator

\* The number of read-transform-writes committed to path p.
WritesTo(p) == IF p \in DOMAIN writes THEN writes[p] ELSE 0

\* f with its value at key k set to v.
Put(f, k, v) == [x \in DOMAIN f \cup {k} |-> IF x = k THEN v ELSE f[x]]

\* The number of times the counting function c holds for key k.
Times(c, k) == IF k \in DOMAIN c THEN c[k] ELSE 0

instVars == << pc, input_files, warnings, todo, cur_file, row_count, row_shards,
               cur, tmp, executed, computeCount, runStart >>

\* An instance that has left main: it returned, or an exception ended it.
Terminated(i) == pc[i] \in {"done", "ValueError", "IOError"}

\* Discovery and the shuffle of the accepted files.
Discover(i) ==
    /\ pc[i] = "start"
    /\ \E d \in DiscoveryResults(rawFiles) :
       \E sh \in ShuffleResults(d.input_files_to_subshard) :
          /\ input_files' = [input_files EXCEPT ![i] = Range(sh)]
          /\ todo' = [todo EXCEPT ![i] = sh]
          /\ warnings' = [warnings EXCEPT ![i] = d.warnings]
    /\ runStart' = [runStart EXCEPT ![i] =
                      [started |-> TRUE,
                       after |-> \A j \in Instances \ {i} : Terminated(j),
                       out |-> IF \A j \in Instances \ {i} : Terminated(j)
                               THEN out ELSE <<>>]]
    /\ pc' = [pc EXCEPT ![i] = "files"]
    /\ UNCHANGED << configVars, chunkVars, out, dirs, locks, writes, failures,
                    cur_file, row_count, row_shards, cur, tmp, executed, computeCount >>

\* The outer loop takes the next file: mkdir of its output directory, the
\* row-count probe and the shuffled chunk starts.
ScanFile(i) ==
    /\ pc[i] = "files"
    /\ todo[i] # <<>>
    /\ LET f == Head(todo[i]) IN
        /\ ReaderOf(f) # "ValueError"
        /\ dirs' = dirs \cup {get_shard_prefix(f)}
        /\ cur_file' = [cur_file EXCEPT ![i] = f]
        /\ todo' = [todo EXCEPT ![i] = Tail(@)]
        /\ row_count' = [row_count EXCEPT ![i] = Len(scan_with_row_idx(f))]
        /\ \E sh \in ShuffleResults(RowShards(Len(scan_with_row_idx(f)), row_chunksize)) :
              row_shards' = [row_shards EXCEPT ![i] = sh]
        /\ pc' = [pc EXCEPT ![i] = "chunks"]
    /\ UNCHANGED << configVars, chunkVars, out, locks, writes, failures, input_files,
                    warnings, cur, tmp, executed, computeCount, runStart >>

\* The outer loop takes a file whose suffix scan_with_row_idx matches to no
\* reader: the ValueError leaves main.
ScanFileUnsupported(i) ==
    /\ pc[i] = "files"
    /\ todo[i] # <<>>
    /\ LET f == Head(todo[i]) IN
        /\ ReaderOf(f) = "ValueError"
        /\ dirs' = dirs \cup {get_shard_prefix(f)}
        /\ cur_file' = [cur_file EXCEPT ![i] = f]
        /\ todo' = [todo EXCEPT ![i] = Tail(@)]
        /\ pc' = [pc EXCEPT ![i] = "ValueError"]
    /\ UNCHANGED << configVars, chunkVars, out, locks, writes, failures, input_files,
                    warnings, row_count, row_shards, cur, tmp, executed, computeCount,
                    runStart >>

\* The outer loop is over: main returns.
Finish(i) ==
    /\ pc[i] = "files"
    /\ todo[i] = <<>>
    /\ pc' = [pc EXCEPT ![i] = "done"]
    /\ UNCHANGED << configVars, chunkVars, out, dirs, locks, writes, failures,
                    input_files, warnings, todo, cur_file, row_count, row_shards, cur,
                    tmp, executed, computeCount, runStart >>

\* The inner loop takes the next chunk start and calls the wrapper.
DispatchChunk(i) ==
    /\ pc[i] = "chunks"
    /\ row_shards[i] # <<>>
    /\ LET st == Head(row_shards[i])
           item == [file |-> cur_file[i], st |-> st,
                    end |-> ChunkEnd(st, row_count[i], row_chunksize)]
       IN  /\ cur' = [cur EXCEPT ![i] = item]
           /\ executed' = [executed EXCEPT ![i] = Put(@, item, Times(@, item) + 1)]
    /\ row_shards' = [row_shards EXCEPT ![i] = Tail(@)]
    /\ pc' = [pc EXCEPT ![i] = "wrap"]
    /\ UNCHANGED << configVars, chunkVars, out, dirs, locks, writes, failures,
                    input_files, warnings, todo, cur_file, row_count, tmp,
                    computeCount, runStart >>

\* The inner loop is over: back to the outer loop.
EndFile(i) ==
    /\ pc[i] = "chunks"
    /\ row_shards[i] = <<>>
    /\ pc' = [pc EXCEPT ![i] = "files"]
    /\ UNCHANGED << configVars, chunkVars, out, dirs, locks, writes, failures,
                    input_files, warnings, todo, cur_file, row_count, row_shards, cur,
                    tmp, executed, computeCount, runStart >>

\* ------------------------------------------ the wrapper (from its contract)

\* The output path of the work item instance i handed to the wrapper.
CurPath(i) == OutFp(cur[i].file, cur[i].st, cur[i].end)

\* Guarantee (1): the output exists and is not to be overwritten.
WrapIsNoop(i) == CurPath(i) \in DOMAIN out /\ ~OverwriteArg

\* Where main continues when the wrapper returns.
PcAfterReturn == "chunks"

\* A main that catches the exception and goes on with the next chunk.
PcAfterRaiseCaught == "chunks"

\* Where main continues when the wrapper raises: nothing catches it.
PcAfterRaise == "IOError"

WrapNoop(i) ==
    /\ pc[i] = "wrap"
    /\ WrapIsNoop(i)
    /\ pc' = [pc EXCEPT ![i] = PcAfterReturn]
    /\ UNCHANGED << configVars, chunkVars, out, dirs, locks, writes, failures,
                    input_files, warnings, todo, cur_file, row_count, row_shards, cur,
                    tmp, executed, computeCount, runStart >>

\* Guarantee (2): another caller holds the lock of the path; this one skips.
WrapSkip(i) ==
    /\ pc[i] = "wrap"
    /\ ~WrapIsNoop(i)
    /\ CurPath(i) \in locks
    /\ pc' = [pc EXCEPT ![i] = PcAfterReturn]
    /\ UNCHANGED << configVars, chunkVars, out, dirs, locks, writes, failures,
                    input_files, warnings, todo, cur_file, row_count, row_shards, cur,
                    tmp, executed, computeCount, runStart >>

\* Guarantee (2): another caller holds the lock of the path; this one waits.
WrapWait(i) ==
    /\ pc[i] = "wrap"
    /\ ~WrapIsNoop(i)
    /\ CurPath(i) \in locks
    /\ pc' = [pc EXCEPT ![i] = "wait"]
    /\ UNCHANGED << configVars, chunkVars, out, dirs, locks, writes, failures,
                    input_files, warnings, todo, cur_file, row_count, row_shards, cur,
                    tmp, executed, computeCount, runStart >>

\* The lock was released: the waiting caller treats the target as existing.
WrapWaitOver(i) ==
    /\ pc[i] = "wait"
    /\ CurPath(i) \notin locks
    /\ pc' = [pc EXCEPT ![i] = PcAfterReturn]
    /\ UNCHANGED << configVars, chunkVars, out, dirs, locks, writes, failures,
                    input_files, warnings, todo, cur_file, row_count, row_shards, cur,
                    tmp, executed, computeCount, runStart >>

\* Guarantee (2): this caller takes the lock of the path.
WrapAcquire(i) ==
    /\ pc[i] = "wrap"
    /\ ~WrapIsNoop(i)
    /\ CurPath(i) \notin locks
    /\ locks' = locks \cup {CurPath(i)}
    /\ pc' = [pc EXCEPT ![i] = "compute"]
    /\ UNCHANGED << configVars, chunkVars, out, dirs, writes, failures,
                    input_files, warnings, todo, cur_file, row_count, row_shards, cur,
                    tmp, executed, computeCount, runStart >>

\* write_fn(compute_fn(read_fn(in_fp)), temporary location), with the
\* read_fn, compute_fn and write_fn main passes.
WrapCompute(i) ==
    /\ pc[i] = "compute"
    /\ tmp' = [tmp EXCEPT ![i] =
                 [written |-> TRUE,
                  rows |-> filter_to_row_chunk(scan_with_row_idx(cur[i].file),
                                               cur[i].st, cur[i].end)]]
    /\ pc' = [pc EXCEPT ![i] = "commit"]
    /\ UNCHANGED << configVars, chunkVars, out, dirs, locks, writes, failures,
                    input_files, warnings, todo, cur_file, row_count, row_shards, cur,
                    executed, computeCount, runStart >>

\* The atomic rename of the temporary file to the output path, and the
\* release of the lock.
WrapCommit(i) ==
    /\ pc[i] = "commit"
    /\ out' = Put(out, CurPath(i), tmp[i].rows)
    /\ writes' = Put(writes, CurPath(i), WritesTo(CurPath(i)) + 1)
    /\ computeCount' = [computeCount EXCEPT ![i] = @ + 1]
    /\ locks' = locks \ {CurPath(i)}
    /\ tmp' = [tmp EXCEPT ![i] = NoTmp]
    /\ pc' = [pc EXCEPT ![i] = PcAfterReturn]
    /\ UNCHANGED << configVars, chunkVars, dirs, failures, input_files, warnings, todo,
                    cur_file, row_count, row_shards, cur, executed, runStart >>

\* The Table Reader or the Table Writer fails inside the wrapper: the
\* temporary file is dropped, the lock released, and the exception raised
\* to main.
WrapFail(i) ==
    /\ pc[i] \in {"compute", "commit"}
    /\ failures < MaxFailures
    /\ failures' = failures + 1
    /\ locks' = locks \ {CurPath(i)}
    /\ tmp' = [tmp EXCEPT ![i] = NoTmp]
    /\ pc' = [pc EXCEPT ![i] = PcAfterRaise]
    /\ UNCHANGED << configVars, chunkVars, out, dirs, writes, input_files, warnings,
                    todo, cur_file, row_count, row_shards, cur, executed, computeCount,
                    runStart >>

\* ---------------------------------------------------------- specifications

Step(i) ==
    \/ Discover(i)
    \/ ScanFile(i)
    \/ ScanFileUnsupported(i)
    \/ Finish(i)
    \/ DispatchChunk(i)
    \/ EndFile(i)
    \/ WrapNoop(i)
    \/ WrapSkip(i)
    \/ WrapWait(i)
    \/ WrapWaitOver(i)
    \/ WrapAcquire(i)
    \/ WrapCompute(i)
    \/ WrapCommit(i)

Next == \E i \in Instances : Step(i)

\* Any number of instances run concurrently over the same roots.
Spec == Init /\ [][Next]_vars

\* One instance runs alone; the Table Reader or Writer may fail. No other
\* caller ever holds a lock, so the wrapper neither skips nor waits.
SoloStep(i) ==
    \/ Discover(i)
    \/ ScanFile(i)
    \/ ScanFileUnsupported(i)
    \/ Finish(i)
    \/ DispatchChunk(i)
    \/ EndFile(i)
    \/ WrapNoop(i)
    \/ WrapAcquire(i)
    \/ WrapCompute(i)
    \/ WrapCommit(i)
    \/ WrapFail(i)

NextSolo == SoloStep("w1")

SpecSolo == InitSolo /\ [][NextSolo]_vars

\* The discovery of one instance.
NextDiscovery == Discover("w1")

SpecDiscovery == InitDiscovery /\ [][NextDiscovery]_vars

\* row_shards = list(range(0, row_count, row_chunksize))
ChunkSplit ==
    /\ chunk_pc = "start"
    /\ chunk_starts' = RowShards(chunk_R, chunk_C)
    /\ chunk_pc' = "loop"
    /\ UNCHANGED << configVars, instVars, out, dirs, locks, writes, failures,
                    chunk_R, chunk_C, chunk_list >>

\* One pass of the inner loop: the end of the chunk that starts at st.
ChunkNext ==
    /\ chunk_pc = "loop"
    /\ chunk_starts # <<>>
    /\ chunk_list' = Append(chunk_list,
                            [st |-> Head(chunk_starts),
                             end |-> ChunkEnd(Head(chunk_starts), chunk_R, chunk_C)])
    /\ chunk_starts' = Tail(chunk_starts)
    /\ UNCHANGED << configVars, instVars, out, dirs, locks, writes, failures,
                    chunk_R, chunk_C, chunk_pc >>

\* The inner loop is over.
ChunkDone ==
    /\ chunk_pc = "loop"
    /\ chunk_starts = <<>>
    /\ chunk_pc' = "done"
    /\ UNCHANGED << configVars, instVars, out, dirs, locks, writes, failures,
                    chunk_R, chunk_C, chunk_starts, chunk_list >>

NextChunks == ChunkSplit \/ ChunkNext \/ ChunkDone

SpecChunks == InitChunks /\ [][NextChunks]_vars

\* ------------------------------------------------------------ properties

\* The chunks of a file of R rows cut every C rows, stated on their own:
\* the starts are the multiples of C below R, a chunk ends C rows after its
\* start or at R.
ExpectedChunks(R, C) ==
    { << st, IF st + C <= R THEN st + C ELSE R >> :
        st \in { k * C : k \in 0..R } \cap 0..(R - 1) }

\* The path of the output target of chunk c of file f.
TargetPath(f, c) == [dir |-> [parent |-> f.parent, file_name |-> f.name[1]], name |-> c]

\* The rows of file f with index in [st, end), in order, without an index.
RowsOfChunk(f, st, end) == [k \in 1..(end - st) |-> [src |-> f, row |-> st + k]]

\* C2: for every row count R >= 0 and chunk size C > 0 the chunks derived
\* (starts range(0, R, C), end = min(start + C, R)) are pairwise disjoint
\* half-open intervals of length at most C whose union is exactly [0, R);
\* R = 0 gives no chunk.
C2_ChunksPartitionRows ==
    chunk_pc = "done" =>
        LET n == Len(chunk_list) IN
        /\ \A k \in 1..n :
              /\ 0 <= chunk_list[k].st
              /\ chunk_list[k].st < chunk_list[k].end
              /\ chunk_list[k].end <= chunk_R
              /\ chunk_list[k].end - chunk_list[k].st <= chunk_C
        /\ \A j, k \in 1..n :
              j # k => \/ chunk_list[j].end <= chunk_list[k].st
                       \/ chunk_list[k].end <= chunk_list[j].st
        /\ \A r \in 0..(chunk_R - 1) :
              \E k \in 1..n : chunk_list[k].st <= r /\ r < chunk_list[k].end
        /\ (chunk_R = 0 => n = 0)

\* C2 witness: a file cut into at least three chunks, the last one short.
C2_Witness ==
    /\ chunk_pc = "done"
    /\ Len(chunk_list) >= 3
    /\ \E k \in 1..Len(chunk_list) :
          /\ chunk_list[k].end = chunk_R
          /\ chunk_list[k].end - chunk_list[k].st < chunk_C

RECURSIVE ConcatFrom(_, _)
\* The output files of file f from start st on, concatenated in start order.
ConcatFrom(f, st) ==
    IF st >= nrows[f] THEN <<>>
    ELSE LET end == IF st + row_chunksize <= nrows[f] THEN st + row_chunksize ELSE nrows[f]
         IN  IF TargetPath(f, <<st, end>>) \in DOMAIN out
             THEN out[TargetPath(f, <<st, end>>)] \o ConcatFrom(f, end)
             ELSE <<>>

\* C3: after one run that completes without error over an empty output
\* root, the output targets of every accepted file are exactly the files
\* [start-end) of its chunks, each holds exactly the input rows with index in
\* [start, end) in order and without the row index, and the outputs
\* concatenated in start order are the input rows (10000 rows cut every 3000
\* give [0,3000), [3000,6000), [6000,9000), [9000,10000)).
C3_OutputsAreTheChunks ==
    /\ (pc["w1"] = "done" /\ initOut = <<>>) =>
          \A f \in input_files["w1"] :
              /\ { p \in DOMAIN out : p.dir = [parent |-> f.parent, file_name |-> f.name[1]] }
                   = { TargetPath(f, c) : c \in ExpectedChunks(nrows[f], row_chunksize) }
              /\ \A c \in ExpectedChunks(nrows[f], row_chunksize) :
                    out[TargetPath(f, c)] = RowsOfChunk(f, c[1], c[2])
              /\ ConcatFrom(f, 0) = [k \in 1..nrows[f] |-> [src |-> f, row |-> k]]
    /\ [k \in 1..Len(RowShards(10000, 3000)) |->
          << RowShards(10000, 3000)[k], ChunkEnd(RowShards(10000, 3000)[k], 10000, 3000) >>]
         = << <<0, 3000>>, <<3000, 6000>>, <<6000, 9000>>, <<9000, 10000>> >>

\* C3 witness: a completed run over an empty output root that cut two
\* accepted files, one of them into several chunks with a short last one.
C3_Witness ==
    /\ pc["w1"] = "done"
    /\ initOut = <<>>
    /\ Cardinality(input_files["w1"]) = 2
    /\ \E f \in input_files["w1"] :
          /\ nrows[f] > row_chunksize
          /\ nrows[f] % row_chunksize # 0
          /\ Cardinality({ p \in DOMAIN out : p.dir = get_shard_prefix(f) }) >= 2

\* The work items of the files instance i accepted.
WorkItems(i) ==
    UNION { { [file |-> f, st |-> c[1], end |-> c[2]] :
                c \in ExpectedChunks(nrows[f], row_chunksize) } : f \in input_files[i] }

\* C8 as stated: a failure of the Table Reader or Writer in one work item
\* leaves no other work item of the run unprocessed.
C8_FailureLeavesNoItemUnprocessed ==
    pc["w1"] = "IOError" =>
        \A item \in WorkItems("w1") \ {cur["w1"]} : Times(executed["w1"], item) >= 1

\* C8 amended: a failure of the Table Reader or Writer inside a work item is
\* neither caught nor retried by main: it ends the run of that instance at
\* once, with the item handed to the wrapper exactly once, no output target
\* changed by the failure, and nothing more done by that run afterwards.
C8_FailureEndsTheRun ==
    [][ /\ failures' # failures =>
              /\ pc'["w1"] = "IOError"
              /\ Times(executed'["w1"], cur'["w1"]) = 1
              /\ out' = out
              /\ writes' = writes
        /\ pc["w1"] = "IOError" =>
              /\ pc'["w1"] = "IOError"
              /\ executed' = executed
              /\ out' = out ]_vars

\* C8 witness: a run ended by a failure after it wrote a chunk and before it
\* got to the work items still in its loops.
C8_Witness ==
    /\ pc["w1"] = "IOError"
    /\ computeCount["w1"] >= 1
    /\ (row_shards["w1"] # <<>> \/ todo["w1"] # <<>>)
    /\ WorkItems("w1") \ DOMAIN executed["w1"] # {}

\* The files of the directory that some format pattern of discovery matches.
Discovered == { f \in rawFiles : \E k \in DOMAIN Formats : GlobMatches(f, Formats[k]) }

\* The place of the format of a discovered file in the preference order.
FormatIndex(f) == CHOOSE k \in DOMAIN Formats : GlobMatches(f, Formats[k])

\* The logical shard identity of a discovered file: its relative path with
\* only the format suffix removed.
Identity(f) ==
    [parent |-> f.parent,
     stem |-> SubSeq(f.name, 1, Len(f.name) - Len(Formats[FormatIndex(f)]))]

\* The reader of each format, in the preference order of discovery.
ReaderForFormat == << "scan_parquet", "scan_csv", "read_csv_gzip" >>

\* The number of skip warnings an instance logged for file f.
WarningsFor(i, f) == Cardinality({ k \in DOMAIN warnings[i] : warnings[i][k] = f })

\* C4: discovery accepts at most one file per logical shard identity; when
\* several format variants of an identity exist it keeps the one in the most
\* preferred format (parquet > csv > csv.gz) and logs one skip warning for
\* each other variant; of shard.parquet, shard.csv and shard.csv.gz it keeps
\* shard.parquet and logs two warnings.
C4_OneFilePerIdentityByPreference ==
    pc["w1"] = "files" =>
        /\ \A a, b \in input_files["w1"] : Identity(a) = Identity(b) => a = b
        /\ \A f \in Discovered :
              LET variants == { g \in Discovered : Identity(g) = Identity(f) } IN
              Cardinality(variants) >= 2 =>
                  \E best \in variants :
                      /\ \A g \in variants : FormatIndex(best) <= FormatIndex(g)
                      /\ input_files["w1"] \cap variants = {best}
                      /\ \A g \in variants \ {best} : WarningsFor("w1", g) = 1
        /\ rawFiles = { MkFile("", <<"d", "parquet">>), MkFile("", <<"d", "csv">>),
                        MkFile("", <<"d", "csv", "gz">>) }
             => /\ input_files["w1"] = { MkFile("", <<"d", "parquet">>) }
                /\ Len(warnings["w1"]) = 2

\* C10: get_shard_prefix removes only the format suffix, so two discovered
\* files get the same shard prefix only if their paths differ in the format
\* suffix alone; discovery never skips a file because of another file of the
\* same format, and every skipped file has an accepted counterpart in a
\* strictly more preferred format.
C10_PrefixRemovesOnlyTheFormat ==
    pc["w1"] = "files" =>
        /\ \A f, g \in Discovered :
              get_shard_prefix(f) = get_shard_prefix(g) => Identity(f) = Identity(g)
        /\ \A k \in DOMAIN warnings["w1"] :
              \E a \in input_files["w1"] :
                  /\ Identity(a) = Identity(warnings["w1"][k])
                  /\ FormatIndex(a) < FormatIndex(warnings["w1"][k])

\* C7: every file discovery accepted is dispatched by scan_with_row_idx to
\* the reader of its own format and then cut into chunks; the unsupported
\* file type error is raised only for a file whose suffix is none of
\* .parquet, .csv and .csv.gz.
C7_AcceptedFileReachesItsReader ==
    \A i \in Instances :
        /\ pc[i] = "ValueError" =>
              ~ \E k \in DOMAIN Formats : GlobMatches(cur_file[i], Formats[k])
        /\ pc[i] \in {"chunks", "wrap", "wait", "compute", "commit"} =>
              ReaderOf(cur_file[i]) = ReaderForFormat[FormatIndex(cur_file[i])]

\* The output path of a work item.
ItemPath(item) == TargetPath(item.file, << item.st, item.end >>)

\* The file at path p is the complete chunk of a work item of some instance.
Complete(p) ==
    \E i \in Instances : \E item \in WorkItems(i) :
        /\ p = ItemPath(item)
        /\ out[p] = RowsOfChunk(item.file, item.st, item.end)

\* No output path holds anything but the file that was there before the
\* instances started or the complete chunk of a work item.
NoPartialFile ==
    \A p \in DOMAIN out : (p \in DOMAIN initOut /\ out[p] = initOut[p]) \/ Complete(p)

C5_SecondRunComputesNothing ==
    \A j \in Instances :
        (runStart[j].started /\ runStart[j].after /\ ~do_overwrite) =>
            /\ computeCount[j] = 0
            /\ out = runStart[j].out

\* Instance i has left main and no other instance has started.
RanAlone(i) == Terminated(i) /\ \A j \in Instances \ {i} : pc[j] = "start"

\* C6: an output target that exists with stale content before a run is, with
\* do_overwrite = true, replaced by the run with the fresh chunk, the path
\* never holding anything but the complete old or the complete new content;
\* with do_overwrite = false it is left unchanged and nothing is read or
\* transformed for it.
C6_StaleTargetReplacedOrKept ==
    \A p \in DOMAIN initOut :
        /\ p \in DOMAIN out
        /\ out[p] = initOut[p] \/ Complete(p)
        /\ do_overwrite =>
              \A i \in Instances :
                  (RanAlone(i) /\ \E item \in WorkItems(i) : ItemPath(item) = p)
                      => Complete(p)
        /\ ~do_overwrite => (out[p] = initOut[p] /\ WritesTo(p) = 0)

\* The output tree a complete run of instance i alone must leave.
ExpectedOut(i) ==
    [p \in DOMAIN initOut \cup { ItemPath(item) : item \in WorkItems(i) } |->
        IF p \in DOMAIN initOut /\ (~do_overwrite \/ p \notin { ItemPath(item) : item \in WorkItems(i) })
        THEN initOut[p]
        ELSE LET item == CHOOSE it \in WorkItems(i) : ItemPath(it) = p
             IN  RowsOfChunk(item.file, item.st, item.end)]

\* C9: whatever the shuffles, the work order main executes holds every chunk
\* of every accepted file exactly once, and complete runs that differ only
\* in the shuffles end with the same output targets holding the same content.
C9_EveryChunkOnceWhateverTheOrder ==
    \A i \in Instances :
        RanAlone(i) =>
            /\ DOMAIN executed[i] = WorkItems(i)
            /\ \A item \in DOMAIN executed[i] : executed[i][item] = 1
            /\ pc[i] = "done" => out = ExpectedOut(i)

====
